---- MODULE Spec2Model ----
(***************************************************************************)
(* BlocksService.fetchBlock of substrate-api-sidecar: one request that     *)
(* fetches a block, its events and the validator set, builds the           *)
(* extrinsic records, attributes the events to them, builds the fee        *)
(* calculator (createCalcFee) and annotates every paying extrinsic.        *)
(*                                                                         *)
(* Encodings.  A block hash is modelled by the block's height (the chain   *)
(* is linear): the parent of hash h is h - 1, the grandparent h - 2, and   *)
(* the all-zero parent hash of the genesis block is ZeroHash.  JavaScript  *)
(* values of mixed type are strings: a boolean is "true"/"false", null is  *)
(* "null"; an item of an event's JSON data is "bool:true", "bool:false",   *)
(* "str:Yes" (an item with a paysFee field of that value) or "other" (an   *)
(* item without one).  A spec version is a numeral in a string.            *)
(***************************************************************************)
EXTENDS Integers, Sequences, FiniteSets, TLC

\* ------------------------------------------------------------------ bounds
MaxExt == 2
MaxEvents == 2

\* -------------------------------------------------------- program constants
PerByteThreshold == 515500
EventSuccess == "ExtrinsicSuccess"
EventFailure == "ExtrinsicFailed"
UnableToFetchEvents == "Unable to fetch Events, cannot confirm extrinsic status. Check pruning settings on the node."
HardcodedPerByte == "1000000000"

\* ------------------------------------------------------------------ inputs
ZeroHash == -1
\* the genesis block, the first block, a later block, a block past the per-byte patch
Heights == {0, 1, 2, PerByteThreshold}
OtherMethod == "Transfer"
\* the JSON data of a sentinel event: no paysFee item; "Yes" after an item
\* without the field; boolean true before a later false; boolean false
SentinelData == {<<"other">>, <<"other", "str:Yes">>, <<"bool:true", "bool:false">>, <<"bool:false">>}
SpecVersions == {"25", "26"}
Versions == [specName : {"polkadot"}, specVersion : SpecVersions]

RawExtrinsics(n) == {x \in [1..n -> [isSigned : BOOLEAN, bytes : 0..(MaxExt + 1)]] : \A i \in 1..n : x[i].bytes = i - 1}
RawBlocks(h) == UNION {{[number |-> h, extrinsics |-> x] : x \in RawExtrinsics(n)} : n \in 0..MaxExt}

\* ExtrinsicSuccess and ExtrinsicFailed are deposited while an extrinsic is
\* applied; the events of the two block-level phases are other events.
EventRecords ==
    [phase : {"ApplyExtrinsic"}, idx : 0..MaxExt, method : {EventSuccess, EventFailure}, data : SentinelData]
    \cup [phase : {"ApplyExtrinsic"}, idx : 0..MaxExt, method : {OtherMethod}, data : {<<"other">>}]
    \cup [phase : {"Finalization", "Initialization"}, idx : {0}, method : {OtherMethod}, data : {<<"other">>}]
EventLists == UNION {[1..n -> EventRecords] : n \in 0..MaxEvents}

NoBlock == [number |-> ZeroHash, extrinsics |-> <<>>]
NoEvents == [ok |-> TRUE, list |-> <<>>]
NoError == [kind |-> "none", idx |-> -1, hash |-> -1]
NoHash == -2
NoVersion == [specName |-> "", specVersion |-> ""]
NoFee == [calcFee |-> "none", specName |-> "", specVersion |-> "",
          parentParentHash |-> NoHash, headerAt |-> NoHash, verAt |-> NoHash,
          verResult |-> NoVersion, multAt |-> NoHash, metaAt |-> NoHash,
          base |-> "none", perByte |-> "none"]
BaseWeightShapes == {"legacy", "current", "absentField", "absentBlockWeights"}

InitialFetches == {"getBlock", "events", "validators"}
FeeFetches == {"header", "version", "multiplier", "metadata"}
FetchNames == InitialFetches \cup FeeFetches

VARIABLES pc, hash, fetch, block, events, extrinsics, onInitialize, onFinalize,
          fee, idx, feeTrace, error

\* author resolution (fetchBlock lines 52-76 with extractAuthor), kept in
\* variables of its own so that digests do not multiply the fee pipeline
VARIABLES apc, logs, sessionValidators, authorId

\* call parsing of one extrinsic (extractExtrinsics line 236 with
\* parseGenericCall), likewise in variables of its own
VARIABLES cpc, genericCall, sanitized

\* the eras-reward-points request (ErasRewardPointsController and
\* ErasRewardPointsService.fetchErasRewardPoints)
\* loopEra is the e of the loop at line 83
VARIABLES epc, eraRequest, loopEra, erasRewardPoints, erasRewardPoint, eraResponse

vars == <<pc, hash, fetch, block, events, extrinsics, onInitialize, onFinalize,
          fee, idx, feeTrace, error>>

authorVars == <<apc, logs, sessionValidators, authorId>>

callVars == <<cpc, genericCall, sanitized>>

eraVars == <<epc, eraRequest, loopEra, erasRewardPoints, erasRewardPoint, eraResponse>>

otherVars == <<authorVars, callVars, eraVars>>

\* ------------------------------------------------------------ pure helpers
Blake2(bytes) == <<"blake2_256", bytes>>

EmptyInfo == [kind |-> "empty", error |-> "", args |-> <<>>, partialFee |-> ""]
ErrorInfo(text, args) == [kind |-> "error", error |-> text, args |-> args, partialFee |-> ""]
DispatchInfo(partialFee) == [kind |-> "RuntimeDispatchInfo", error |-> "", args |-> <<>>, partialFee |-> partialFee]

\* isPaysFee of types/util: the item carries a paysFee field
IsPaysFee(item) == item \in {"bool:true", "bool:false", "str:Yes", "str:No"}

DefaultSuccess(ev) == IF ~ev.ok THEN UnableToFetchEvents ELSE "false"

InitialPaysFee(isSigned) == IF isSigned THEN "null" ELSE "false"

ExtractOne(raw, ev) ==
    [hash |-> Blake2(raw.bytes),
     signature |-> IF raw.isSigned THEN "sig" ELSE "null",
     info |-> EmptyInfo,
     events |-> <<>>,
     success |-> DefaultSuccess(ev),
     paysFee |-> InitialPaysFee(raw.isSigned)]

ExtractExtrinsicsOp_Reversed(blk, ev) ==
    [i \in 1..Len(blk.extrinsics) |-> ExtractOne(blk.extrinsics[Len(blk.extrinsics) + 1 - i], ev)]

ExtractExtrinsicsOp(blk, ev) == [i \in 1..Len(blk.extrinsics) |-> ExtractOne(blk.extrinsics[i], ev)]

SanitizedEvent(record) == [method |-> record.method, data |-> record.data]

RECURSIVE FirstPaysFee(_)
FirstPaysFee(data) ==
    IF data = <<>> THEN "none"
    ELSE IF IsPaysFee(Head(data)) THEN Head(data)
    ELSE FirstPaysFee(Tail(data))

NormalizePaysFee(item) == IF item = "bool:true" \/ item = "str:Yes" THEN "true" ELSE "false"

MayOverwritePaysFee_Unsigned(extrinsic, item) == IsPaysFee(item)

MayOverwritePaysFee(extrinsic, item) == extrinsic.signature # "null" /\ IsPaysFee(item)

SuccessAfter_AnySentinel(extrinsic, record) ==
    IF record.method \in {EventSuccess, EventFailure} THEN "true" ELSE extrinsic.success

SuccessAfter(extrinsic, record) == IF record.method = EventSuccess THEN "true" ELSE extrinsic.success

PaysFeeAfter(extrinsic, record) ==
    IF record.method \in {EventSuccess, EventFailure}
       /\ \E k \in 1..Len(record.data) : MayOverwritePaysFee(extrinsic, record.data[k])
    THEN NormalizePaysFee(FirstPaysFee(record.data))
    ELSE extrinsic.paysFee

AttributeEvent(extrinsic, record) ==
    [extrinsic EXCEPT !.success = SuccessAfter(extrinsic, record),
                      !.paysFee = PaysFeeAfter(extrinsic, record),
                      !.events = Append(extrinsic.events, SanitizedEvent(record))]

\* extrinsics[extrinsicIdx] is undefined
MissingExtrinsic(exts, extrinsicIdx) == extrinsicIdx >= Len(exts)

SanitizeRecord_SkipMissing(acc, record, h) ==
    IF record.phase = "ApplyExtrinsic"
    THEN IF MissingExtrinsic(acc.extrinsics, record.idx)
         THEN acc
         ELSE [acc EXCEPT !.extrinsics[record.idx + 1] = AttributeEvent(acc.extrinsics[record.idx + 1], record)]
    ELSE IF record.phase = "Finalization"
    THEN [acc EXCEPT !.onFinalize = Append(acc.onFinalize, SanitizedEvent(record))]
    ELSE [acc EXCEPT !.onInitialize = Append(acc.onInitialize, SanitizedEvent(record))]

SanitizeRecord(acc, record, h) ==
    IF record.phase = "ApplyExtrinsic"
    THEN IF MissingExtrinsic(acc.extrinsics, record.idx)
         THEN [acc EXCEPT !.error = [kind |-> "MissingExtrinsic", idx |-> record.idx, hash |-> h]]
         ELSE [acc EXCEPT !.extrinsics[record.idx + 1] = AttributeEvent(acc.extrinsics[record.idx + 1], record)]
    ELSE IF record.phase = "Finalization"
    THEN [acc EXCEPT !.onFinalize = Append(acc.onFinalize, SanitizedEvent(record))]
    ELSE IF record.phase = "Initialization"
    THEN [acc EXCEPT !.onInitialize = Append(acc.onInitialize, SanitizedEvent(record))]
    ELSE acc

RECURSIVE SanitizeFrom(_, _, _)
SanitizeFrom(list, acc, h) ==
    IF list = <<>> \/ acc.error.kind # "none" THEN acc
    ELSE SanitizeFrom(Tail(list), SanitizeRecord(acc, Head(list), h), h)

SanitizeEventsOp(ev, exts, h) ==
    LET start == [extrinsics |-> exts, onInitialize |-> <<>>, onFinalize |-> <<>>, error |-> NoError]
    IN  IF ev.ok THEN SanitizeFrom(ev.list, start, h) ELSE start

ParentHash(blk) == blk.number - 1

IsGenesis_OwnHash(blk) == blk.number = ZeroHash

\* parentHash.every((byte) => !byte)
IsGenesis(blk) == ParentHash(blk) = ZeroHash

\* ------------------------------------------------- author resolver inputs
MaxLogs == 3
MaxValidators == 2

Accounts == <<"alice", "bob", "carol", "dave">>
NoAuthor == "undefined"
Undefined == [defined |-> FALSE, list |-> <<>>]
ValidatorLists == {[defined |-> TRUE, list |-> SubSeq(Accounts, 1, n)] : n \in 0..MaxValidators}
Engines == {"BABE", "aura"}
Payloads == 0..MaxValidators
Seal == [type |-> "Seal", engine |-> "BABE", data |-> 0]
DigestItems == [type : {"PreRuntime", "Consensus"}, engine : Engines, data : Payloads] \cup {Seal}
DigestLogs == UNION {[1..n -> DigestItems] : n \in 0..MaxLogs}

\* --------------------------------------------------------- call tree values
\* Codec arguments carry their kind; a parsed call is a value of its own kind
Prim(v) == [kind |-> "prim", val |-> v]
Vec(items) == [kind |-> "vec", items |-> items]
Bytes(hex) == [kind |-> "bytes", hex |-> hex]
Arg(name, value) == [name |-> name, value |-> value]
GenericCall(section, method, args) ==
    [kind |-> "call", section |-> section, method |-> method, args |-> args]
SanitizedCall(pallet, method, args) ==
    [kind |-> "sanitized", pallet |-> pallet, method |-> method, args |-> args]
NoCall == GenericCall("", "", <<>>)
NoSanitized == SanitizedCall("", "", <<>>)

\* ------------------------------------------------------ eras reward points
MaxEra == 3

NoEra == -1
NoRequest == [depth |-> 0, era |-> NoEra, currentEra |-> NoEra, historyDepth |-> 0]

\* ------------------------------------------------------------------- Init
Init ==
    /\ pc = "start"
    /\ hash = 0
    /\ fetch = [f \in FetchNames |-> "idle"]
    /\ block = NoBlock
    /\ events = NoEvents
    /\ extrinsics = <<>>
    /\ onInitialize = <<>>
    /\ onFinalize = <<>>
    /\ fee = NoFee
    /\ idx = 0
    /\ feeTrace = <<>>
    /\ error = NoError
    /\ apc = "start"
    /\ logs = <<>>
    /\ sessionValidators = Undefined
    /\ authorId = NoAuthor
    /\ cpc = "start"
    /\ genericCall = NoCall
    /\ sanitized = NoSanitized
    /\ epc = "start"
    /\ eraRequest = NoRequest
    /\ loopEra = 0
    /\ erasRewardPoints = <<>>
    /\ erasRewardPoint = <<>>
    /\ eraResponse = <<>>

\* --------------------------------------------------- the initial fetches
Start ==
    /\ pc = "start"
    /\ \E h \in Heights, hasValidators \in BOOLEAN :
        /\ hash' = h
        /\ fetch' = [f \in FetchNames |->
                        IF f \in {"getBlock", "events"} \/ (f = "validators" /\ hasValidators)
                        THEN "pending" ELSE "idle"]
    /\ pc' = "fetching"
    /\ UNCHANGED <<block, events, extrinsics, onInitialize, onFinalize, fee, idx, feeTrace, error>>
    /\ UNCHANGED otherVars

CompleteGetBlock ==
    /\ pc = "fetching"
    /\ fetch["getBlock"] = "pending"
    /\ \/ \E b \in RawBlocks(hash) :
            /\ block' = b
            /\ fetch' = [fetch EXCEPT !["getBlock"] = "ok"]
       \/ /\ fetch' = [fetch EXCEPT !["getBlock"] = "failed"]
          /\ UNCHANGED block
    /\ UNCHANGED <<pc, hash, events, extrinsics, onInitialize, onFinalize, fee, idx, feeTrace, error>>
    /\ UNCHANGED otherVars

FetchEventsCatch_Empty == [ok |-> TRUE, list |-> <<>>]

\* the string fetchEvents returns from its catch
FetchEventsCatch == [ok |-> FALSE, list |-> <<>>]

FetchEvents ==
    /\ pc = "fetching"
    /\ fetch["events"] = "pending"
    /\ \/ \E l \in EventLists :
            /\ events' = [ok |-> TRUE, list |-> l]
            /\ fetch' = [fetch EXCEPT !["events"] = "ok"]
       \/ /\ events' = FetchEventsCatch
          /\ fetch' = [fetch EXCEPT !["events"] = "caught"]
    /\ UNCHANGED <<pc, hash, block, extrinsics, onInitialize, onFinalize, fee, idx, feeTrace, error>>
    /\ UNCHANGED otherVars

CompleteValidators ==
    /\ pc = "fetching"
    /\ fetch["validators"] = "pending"
    /\ \E r \in {"ok", "failed"} : fetch' = [fetch EXCEPT !["validators"] = r]
    /\ UNCHANGED <<pc, hash, block, events, extrinsics, onInitialize, onFinalize, fee, idx, feeTrace, error>>
    /\ UNCHANGED otherVars

AllSettled_BlockOnly(fs) == fetch["getBlock"] = "ok"

\* the Promise.all of the initial fetches resolves
AllSettled(fs) == \A f \in fs : fetch[f] \in {"idle", "ok", "caught"}

JoinInitial ==
    /\ pc = "fetching"
    /\ AllSettled(InitialFetches)
    /\ pc' = "joined"
    /\ UNCHANGED <<hash, fetch, block, events, extrinsics, onInitialize, onFinalize, fee, idx, feeTrace, error>>
    /\ UNCHANGED otherVars

RejectInitial ==
    /\ pc = "fetching"
    /\ \E f \in InitialFetches :
        /\ fetch[f] = "failed"
        /\ error' = [kind |-> f, idx |-> -1, hash |-> hash]
    /\ pc' = "failed"
    /\ UNCHANGED <<hash, fetch, block, events, extrinsics, onInitialize, onFinalize, fee, idx, feeTrace>>
    /\ UNCHANGED otherVars

\* ------------------------------------------------------------ processing
ExtractExtrinsics ==
    /\ pc = "joined"
    /\ extrinsics' = ExtractExtrinsicsOp(block, events)
    /\ pc' = "extracted"
    /\ UNCHANGED <<hash, fetch, block, events, onInitialize, onFinalize, fee, idx, feeTrace, error>>
    /\ UNCHANGED otherVars

SanitizeEvents ==
    /\ pc = "extracted"
    /\ LET r == SanitizeEventsOp(events, extrinsics, hash)
       IN  IF r.error.kind # "none"
           THEN /\ pc' = "failed"
                /\ error' = r.error
                /\ UNCHANGED <<extrinsics, onInitialize, onFinalize>>
           ELSE /\ pc' = "sanitized"
                /\ extrinsics' = r.extrinsics
                /\ onInitialize' = r.onInitialize
                /\ onFinalize' = r.onFinalize
                /\ UNCHANGED error
    /\ UNCHANGED <<hash, fetch, block, events, fee, idx, feeTrace>>
    /\ UNCHANGED otherVars

GenesisReturn ==
    /\ pc = "sanitized"
    /\ IsGenesis(block)
    /\ pc' = "done"
    /\ UNCHANGED <<hash, fetch, block, events, extrinsics, onInitialize, onFinalize, fee, idx, feeTrace, error>>
    /\ UNCHANGED otherVars

\* ----------------------------------------------------------- createCalcFee
\* api.consts.system.extrinsicBaseWeight || ...blockWeights.perClass.normal.baseExtrinsic
\* over the shape of the constants: "throws" when blockWeights itself is absent
BaseWeightOf(shape) ==
    IF shape = "legacy" \/ shape = "current" THEN "defined"
    ELSE IF shape = "absentField" THEN "undefined"
    ELSE "throws"

FeeSupported(perByteDefined, liveBase, hasNextFeeMultiplier) ==
    ~(~perByteDefined \/ BaseWeightOf(liveBase) = "undefined" \/ ~hasNextFeeMultiplier)

\* the dummy of the unsupported branch
DummyCalcFee == "dummy"

UnsupportedVersionAssign(f, version) ==
    [f EXCEPT !.specVersion = version.specName, !.specName = version.specVersion, !.verResult = version]

SupportedVersionAssign(f, version) ==
    [f EXCEPT !.specName = version.specName, !.specVersion = version.specVersion]

\* the hash the unsupported branch asks the runtime version at
UnsupportedVersionHash(blk) == ParentHash(blk)

NeedsHeader(blk) == blk.number > 1

\* the parent hash of the header fetched at `at`
HeaderParentHash(at) == at - 1

PerByteStr(blk) == IF blk.number < PerByteThreshold THEN HardcodedPerByte ELSE "transactionPayment.transactionByteFee"

RuntimeMismatch(f, live) == f.specName # live.specName \/ f.specVersion # live.specVersion

FromParams(f, constsOf, blk) == [f EXCEPT !.calcFee = "params", !.base = constsOf, !.perByte = PerByteStr(blk)]

IssuePair(f, parentParentHash, blk) ==
    [f EXCEPT !.parentParentHash = parentParentHash, !.verAt = parentParentHash, !.multAt = ParentHash(blk)]

FailWith(kind) ==
    /\ pc' = "failed"
    /\ error' = [kind |-> kind, idx |-> -1, hash |-> hash]

CreateCalcFee ==
    /\ pc = "sanitized"
    /\ ~IsGenesis(block)
    /\ \E perByteDefined \in BOOLEAN, liveBase \in BaseWeightShapes,
          hasNextFeeMultiplier \in BOOLEAN, hasWeightToFee \in BOOLEAN :
        IF BaseWeightOf(liveBase) = "throws"
        THEN /\ FailWith("createCalcFee.TypeError")
             /\ UNCHANGED <<fetch, fee>>
        ELSE IF ~FeeSupported(perByteDefined, liveBase, hasNextFeeMultiplier)
        THEN /\ fee' = [fee EXCEPT !.calcFee = DummyCalcFee, !.verAt = UnsupportedVersionHash(block)]
             /\ fetch' = [fetch EXCEPT !["version"] = "pending"]
             /\ pc' = "cf_unsupported"
             /\ UNCHANGED error
        ELSE IF ~hasWeightToFee
        \* api.consts.transactionPayment.weightToFee.map of an absent constant
        THEN /\ FailWith("createCalcFee.TypeError")
             /\ UNCHANGED <<fetch, fee>>
        ELSE IF NeedsHeader(block)
        THEN /\ fee' = [fee EXCEPT !.headerAt = ParentHash(block)]
             /\ fetch' = [fetch EXCEPT !["header"] = "pending"]
             /\ pc' = "cf_header"
             /\ UNCHANGED error
        ELSE /\ fee' = IssuePair(fee, ParentHash(block), block)
             /\ fetch' = [fetch EXCEPT !["version"] = "pending", !["multiplier"] = "pending"]
             /\ pc' = "cf_pair"
             /\ UNCHANGED error
    /\ UNCHANGED <<hash, block, events, extrinsics, onInitialize, onFinalize, idx, feeTrace>>
    /\ UNCHANGED otherVars

CompleteVersionUnsupported ==
    /\ pc = "cf_unsupported"
    /\ fetch["version"] = "pending"
    /\ \/ \E v \in Versions :
            /\ fee' = UnsupportedVersionAssign(fee, v)
            /\ fetch' = [fetch EXCEPT !["version"] = "ok"]
            /\ pc' = "loop"
            /\ UNCHANGED error
       \/ /\ fetch' = [fetch EXCEPT !["version"] = "failed"]
          /\ FailWith("version")
          /\ UNCHANGED fee
    /\ UNCHANGED <<hash, block, events, extrinsics, onInitialize, onFinalize, idx, feeTrace>>
    /\ UNCHANGED otherVars

CompleteHeader ==
    /\ pc = "cf_header"
    /\ fetch["header"] = "pending"
    /\ \/ /\ fee' = IssuePair(fee, HeaderParentHash(fee.headerAt), block)
          /\ fetch' = [fetch EXCEPT !["header"] = "ok", !["version"] = "pending", !["multiplier"] = "pending"]
          /\ pc' = "cf_pair"
          /\ UNCHANGED error
       \/ /\ fetch' = [fetch EXCEPT !["header"] = "failed"]
          /\ FailWith("header")
          /\ UNCHANGED fee
    /\ UNCHANGED <<hash, block, events, extrinsics, onInitialize, onFinalize, idx, feeTrace>>
    /\ UNCHANGED otherVars

CompleteVersion ==
    /\ pc = "cf_pair"
    /\ fetch["version"] = "pending"
    /\ \/ \E v \in Versions :
            /\ fee' = [fee EXCEPT !.verResult = v]
            /\ fetch' = [fetch EXCEPT !["version"] = "ok"]
       \/ /\ fetch' = [fetch EXCEPT !["version"] = "failed"]
          /\ UNCHANGED fee
    /\ UNCHANGED <<pc, hash, block, events, extrinsics, onInitialize, onFinalize, idx, feeTrace, error>>
    /\ UNCHANGED otherVars

CompleteMultiplier ==
    /\ pc = "cf_pair"
    /\ fetch["multiplier"] = "pending"
    /\ \E r \in {"ok", "failed"} : fetch' = [fetch EXCEPT !["multiplier"] = r]
    /\ UNCHANGED <<pc, hash, block, events, extrinsics, onInitialize, onFinalize, fee, idx, feeTrace, error>>
    /\ UNCHANGED otherVars

RejectPair ==
    /\ pc = "cf_pair"
    /\ \E f \in {"version", "multiplier"} :
        /\ fetch[f] = "failed"
        /\ FailWith(f)
    /\ UNCHANGED <<hash, fetch, block, events, extrinsics, onInitialize, onFinalize, fee, idx, feeTrace>>
    /\ UNCHANGED otherVars

JoinPair ==
    /\ pc = "cf_pair"
    /\ fetch["version"] = "ok"
    /\ fetch["multiplier"] = "ok"
    /\ \E live \in Versions :
        LET f == SupportedVersionAssign(fee, fee.verResult)
        IN  IF RuntimeMismatch(f, live)
            THEN /\ fee' = [f EXCEPT !.metaAt = f.parentParentHash]
                 /\ fetch' = [fetch EXCEPT !["metadata"] = "pending"]
                 /\ pc' = "cf_metadata"
            ELSE /\ fee' = FromParams(f, "api.consts", block)
                 /\ pc' = "loop"
                 /\ UNCHANGED fetch
    /\ UNCHANGED <<hash, block, events, extrinsics, onInitialize, onFinalize, idx, feeTrace, error>>
    /\ UNCHANGED otherVars

CompleteMetadata ==
    /\ pc = "cf_metadata"
    /\ fetch["metadata"] = "pending"
    /\ \/ \E decorated \in BaseWeightShapes :
            /\ fetch' = [fetch EXCEPT !["metadata"] = "ok"]
            /\ IF BaseWeightOf(decorated) = "throws"
               THEN FailWith("createCalcFee.TypeError") /\ UNCHANGED fee
               ELSE IF BaseWeightOf(decorated) = "undefined"
               THEN FailWith("createCalcFee.InternalServerError") /\ UNCHANGED fee
               ELSE /\ fee' = FromParams(fee, "decorated.consts", block)
                    /\ pc' = "loop"
                    /\ UNCHANGED error
       \/ /\ fetch' = [fetch EXCEPT !["metadata"] = "failed"]
          /\ FailWith("metadata")
          /\ UNCHANGED fee
    /\ UNCHANGED <<hash, block, events, extrinsics, onInitialize, onFinalize, idx, feeTrace>>
    /\ UNCHANGED otherVars

\* -------------------------------------------------------------- fee loop
IsCompletedEvent(e) == e.method = EventSuccess \/ e.method = EventFailure

HasCompletedEvent(xtEvents) == \E k \in 1..Len(xtEvents) : IsCompletedEvent(xtEvents[k])

\* calcFee === null || calcFee === undefined
CalcFeeMissing(f) == f.calcFee = "null" \/ f.calcFee = "undefined"

SkipsFee(extrinsic, raw) == extrinsic.paysFee \in {"null", "false"} \/ ~raw.isSigned

CalcFeeResult(f) == IF f.calcFee = DummyCalcFee THEN "null" ELSE "amount"

OnFeeError_All(exts, i) == [j \in 1..Len(exts) |-> [exts[j] EXCEPT !.info = ErrorInfo("Unable to fetch fee info", <<>>)]]

OnFeeError(exts, i) == [exts EXCEPT ![i].info = ErrorInfo("Unable to fetch fee info", <<>>)]

\* one iteration of the loop over block.extrinsics, for the 1-based position i
FeeIteration(exts, raw, f, i, dataPresent, weightPresent, throws) ==
    IF SkipsFee(exts[i], raw)
    THEN [extrinsics |-> exts, tag |-> "skipped"]
    ELSE IF CalcFeeMissing(f)
    THEN [extrinsics |-> [exts EXCEPT ![i].info =
                ErrorInfo("Fee calculation not supported for", <<f.specName, f.specVersion>>)],
          tag |-> "unsupported"]
    ELSE IF ~HasCompletedEvent(exts[i].events)
    THEN [extrinsics |-> [exts EXCEPT ![i].info =
                ErrorInfo("Unable to find success or failure event for extrinsic", <<>>)],
          tag |-> "noCompletedEvent"]
    ELSE IF ~dataPresent
    THEN [extrinsics |-> [exts EXCEPT ![i].info =
                ErrorInfo("Success or failure event for extrinsic does not contain expected data", <<>>)],
          tag |-> "noData"]
    ELSE IF throws
    THEN [extrinsics |-> OnFeeError(exts, i), tag |-> "threw"]
    ELSE IF ~weightPresent
    THEN [extrinsics |-> [exts EXCEPT ![i].info =
                ErrorInfo("Success or failure event for extrinsic does not specify weight", <<>>)],
          tag |-> "noWeight"]
    ELSE [extrinsics |-> [exts EXCEPT ![i].info = DispatchInfo(CalcFeeResult(f))], tag |-> "computed"]

FeeStep ==
    /\ pc = "loop"
    /\ idx < Len(block.extrinsics)
    \* event.data is always an object; the weight may be absent and any call may throw
    /\ \E dataPresent \in {TRUE}, weightPresent \in BOOLEAN, throws \in BOOLEAN :
        LET r == FeeIteration(extrinsics, block.extrinsics[idx + 1], fee, idx + 1,
                              dataPresent, weightPresent, throws)
        IN  /\ extrinsics' = r.extrinsics
            /\ feeTrace' = Append(feeTrace, r.tag)
    /\ idx' = idx + 1
    /\ UNCHANGED <<pc, hash, fetch, block, events, onInitialize, onFinalize, fee, error>>
    /\ UNCHANGED otherVars

Return ==
    /\ pc = "loop"
    /\ ~(idx < Len(block.extrinsics))
    /\ pc' = "done"
    /\ UNCHANGED <<hash, fetch, block, events, extrinsics, onInitialize, onFinalize, fee, idx, feeTrace, error>>
    /\ UNCHANGED otherVars

Next ==
    \/ Start
    \/ CompleteGetBlock
    \/ FetchEvents
    \/ CompleteValidators
    \/ JoinInitial
    \/ RejectInitial
    \/ ExtractExtrinsics
    \/ SanitizeEvents
    \/ GenesisReturn
    \/ CreateCalcFee
    \/ CompleteVersionUnsupported
    \/ CompleteHeader
    \/ CompleteVersion
    \/ CompleteMultiplier
    \/ RejectPair
    \/ JoinPair
    \/ CompleteMetadata
    \/ FeeStep
    \/ Return

Spec == Init /\ [][Next]_vars

\* ================================================================ claims
BuiltPcs == {"extracted", "sanitized", "cf_unsupported", "cf_header", "cf_pair", "cf_metadata", "loop", "done"}
FeePcs == {"cf_unsupported", "cf_header", "cf_pair", "cf_metadata", "loop"}
CreateCalcFeeErrors == {"createCalcFee.TypeError", "createCalcFee.InternalServerError",
                        "header", "version", "multiplier", "metadata"}

\* an event of the fetched list with phase ApplyExtrinsic(i - 1) and method m
FetchedFor(i, m) ==
    /\ events.ok
    /\ \E k \in 1..Len(events.list) :
        /\ events.list[k].phase = "ApplyExtrinsic"
        /\ events.list[k].idx = i - 1
        /\ events.list[k].method = m

BadPhase(k) ==
    /\ events.list[k].phase = "ApplyExtrinsic"
    /\ events.list[k].idx >= Len(block.extrinsics)

HasBadPhase == events.ok /\ \E k \in 1..Len(events.list) : BadPhase(k)

FirstBad == CHOOSE k \in 1..Len(events.list) : BadPhase(k) /\ \A j \in 1..(k - 1) : ~BadPhase(j)

\* C1 (as stated): in a returned block success is true iff an ExtrinsicSuccess
\* event was fetched for the extrinsic, false iff an ExtrinsicFailed event
\* was, and neither true nor false when the extrinsic has neither event.
C1_Original ==
    pc = "done" =>
        \A i \in 1..Len(extrinsics) :
            /\ extrinsics[i].success = "true" <=> FetchedFor(i, EventSuccess)
            /\ extrinsics[i].success = "false" <=> FetchedFor(i, EventFailure)
            /\ (~FetchedFor(i, EventSuccess) /\ ~FetchedFor(i, EventFailure))
                    => extrinsics[i].success \notin {"true", "false"}

\* C1 (amended): in a returned block success is true iff an ExtrinsicSuccess
\* event with phase ApplyExtrinsic(i) was fetched for the extrinsic; when the
\* events were fetched and no such event exists success is false, whether or
\* not an ExtrinsicFailed event was attributed; when the events fetch failed
\* success is the sentinel string.
C1_SuccessFlag ==
    pc = "done" =>
        \A i \in 1..Len(extrinsics) :
            /\ extrinsics[i].success = "true" <=> FetchedFor(i, EventSuccess)
            /\ (events.ok /\ ~FetchedFor(i, EventSuccess)) => extrinsics[i].success = "false"
            /\ ~events.ok => extrinsics[i].success = UnableToFetchEvents

C1_Witness ==
    /\ pc = "done"
    /\ events.ok
    /\ Len(extrinsics) = 2
    /\ ~FetchedFor(1, EventSuccess) /\ ~FetchedFor(1, EventFailure)
    /\ extrinsics[1].success = "false"
    /\ FetchedFor(2, EventSuccess)
    /\ extrinsics[2].success = "true"

\* C2: an unsigned extrinsic has paysFee false in every state of the
\* assembly, whatever events were attributed to it.
C2_UnsignedNeverPays ==
    pc \in BuiltPcs =>
        \A i \in 1..Len(extrinsics) :
            ~block.extrinsics[i].isSigned => extrinsics[i].paysFee = "false"

C2_Witness ==
    /\ pc = "done"
    /\ Len(extrinsics) = 2
    /\ ~block.extrinsics[1].isSigned
    /\ \E k \in 1..Len(extrinsics[1].events) :
        /\ extrinsics[1].events[k].method = EventSuccess
        /\ extrinsics[1].events[k].data = <<"other", "str:Yes">>
    /\ extrinsics[1].paysFee = "false"
    /\ block.extrinsics[2].isSigned
    /\ extrinsics[2].paysFee = "true"

\* C3: once the block and an event list holding an event with phase
\* ApplyExtrinsic(i), i >= the number of extrinsics, are fetched, no block
\* is returned: event attribution fails with the index of the first such
\* event and the block hash (unless an initial fetch had already failed).
C3_MissingExtrinsicFails ==
    (fetch["getBlock"] = "ok" /\ fetch["events"] = "ok" /\ HasBadPhase) =>
        \/ pc \in {"fetching", "joined", "extracted"}
        \/ /\ pc = "failed"
           /\ \/ error.kind \in InitialFetches
              \/ error = [kind |-> "MissingExtrinsic", idx |-> events.list[FirstBad].idx, hash |-> hash]

C3_Witness ==
    /\ pc = "failed"
    /\ error.kind = "MissingExtrinsic"
    /\ Len(block.extrinsics) = 1
    /\ Len(events.list) = 2
    /\ events.list[1].phase = "ApplyExtrinsic" /\ events.list[1].idx = 0
    /\ events.list[1].method = EventSuccess
    /\ BadPhase(2)

\* C4: for the genesis block no fee fetch is issued, createCalcFee and
\* calc_fee never run, and no extrinsic carries fee info.
C4_GenesisNoFee ==
    (fetch["getBlock"] = "ok" /\ block.number = 0) =>
        /\ pc \notin FeePcs
        /\ \A f \in FeeFetches : fetch[f] = "idle"
        /\ fee = NoFee
        /\ feeTrace = <<>>
        /\ \A i \in 1..Len(extrinsics) : extrinsics[i].info = EmptyInfo

C4_Witness ==
    /\ pc = "done"
    /\ block.number = 0
    /\ \E i \in 1..Len(extrinsics) : block.extrinsics[i].isSigned /\ extrinsics[i].paysFee = "true"

\* C5: the extrinsics of the result are as many as the raw block's, and
\* entry i is built from raw extrinsic i, at every stage of the assembly.
C5_SameExtrinsics ==
    pc \in BuiltPcs =>
        /\ Len(extrinsics) = Len(block.extrinsics)
        /\ \A i \in 1..Len(extrinsics) :
            /\ extrinsics[i].hash = Blake2(block.extrinsics[i].bytes)
            /\ (extrinsics[i].signature # "null") <=> block.extrinsics[i].isSigned

C5_Witness ==
    /\ pc = "done"
    /\ block.number > 0
    /\ Len(extrinsics) = 2
    /\ Len(extrinsics[2].events) = 2
    /\ extrinsics[2].info.kind = "RuntimeDispatchInfo"

\* C6 (as stated): on a runtime without the fee primitives every signed,
\* paying extrinsic of a returned block carries the error "Fee calculation
\* not supported for <specName>#<specVersion>", name first, version second.
C6_Claim ==
    (pc = "done" /\ fee.calcFee = DummyCalcFee) =>
        \A i \in 1..Len(extrinsics) :
            (block.extrinsics[i].isSigned /\ extrinsics[i].paysFee = "true") =>
                extrinsics[i].info = ErrorInfo("Fee calculation not supported for",
                                               <<fee.verResult.specName, fee.verResult.specVersion>>)

\* C7 (as stated): no failure of the fee calculation path aborts the block:
\* a request fails only on an initial fetch or on event attribution.
C7_Original ==
    pc = "failed" => error.kind \in InitialFetches \cup {"MissingExtrinsic"}

InfoOfTag(tag) ==
    IF tag = "skipped" THEN EmptyInfo
    ELSE IF tag = "threw" THEN ErrorInfo("Unable to fetch fee info", <<>>)
    ELSE IF tag = "noWeight" THEN ErrorInfo("Success or failure event for extrinsic does not specify weight", <<>>)
    ELSE IF tag = "computed" THEN DispatchInfo(IF fee.calcFee = "params" THEN "amount" ELSE "null")
    ELSE ErrorInfo(tag, <<>>)

\* C7 (amended): an error raised inside the loop's try block for extrinsic i
\* is recorded as 'Unable to fetch fee info' on that extrinsic only, every
\* other extrinsic keeps the info of its own iteration, and the loop never
\* aborts the request; only createCalcFee, which runs before the loop and
\* outside the try block, aborts the block when it fails.
C7_PerExtrinsicError ==
    /\ pc \in {"loop", "done"} =>
        /\ Len(feeTrace) = idx
        /\ \A j \in 1..Len(extrinsics) :
            extrinsics[j].info = IF j <= idx THEN InfoOfTag(feeTrace[j]) ELSE EmptyInfo
    /\ pc = "failed" =>
        /\ feeTrace = <<>>
        /\ error.kind \in InitialFetches \cup {"MissingExtrinsic"} \cup CreateCalcFeeErrors

C7_Witness ==
    /\ pc = "done"
    /\ feeTrace = <<"threw", "computed">>
    /\ extrinsics[1].info = ErrorInfo("Unable to fetch fee info", <<>>)
    /\ extrinsics[2].info = DispatchInfo("amount")

\* C8 (as stated): the runtime version whose spec name and version
\* createCalcFee uses is queried at the grandparent hash for a block of
\* height > 1, and at the parent hash for height <= 1.
C8_Claim ==
    (pc \in {"loop", "done"} /\ fee.calcFee # "none") =>
        fee.verAt = IF block.number > 1 THEN block.number - 2 ELSE block.number - 1

\* C8, supported branch only: there the version is queried at that hash and
\* its name and version are returned in that order
C8_SupportedBranch ==
    (pc \in {"loop", "done"} /\ fee.calcFee = "params") =>
        /\ fee.verAt = IF block.number > 1 THEN block.number - 2 ELSE block.number - 1
        /\ fee.specName = fee.verResult.specName
        /\ fee.specVersion = fee.verResult.specVersion

\* C9: when the events fetch fails the request does not fail on that
\* account: a returned block has the sentinel string as every extrinsic's
\* success, no attributed event and empty onInitialize and onFinalize, and a
\* failed request failed on another fetch or in createCalcFee.
C9_DegradedEvents ==
    fetch["events"] = "caught" =>
        /\ ~events.ok
        /\ pc = "failed" => error.kind \in {"getBlock", "validators"} \cup CreateCalcFeeErrors
        /\ pc \in BuiltPcs =>
            /\ \A i \in 1..Len(extrinsics) :
                /\ extrinsics[i].success = UnableToFetchEvents
                /\ extrinsics[i].events = <<>>
            /\ onInitialize = <<>>
            /\ onFinalize = <<>>

C9_Witness ==
    /\ pc = "done"
    /\ fetch["events"] = "caught"
    /\ block.number > 0
    /\ Len(extrinsics) = 2
    /\ extrinsics[1].success = UnableToFetchEvents

ProcessingPcs == {"extracted", "sanitized", "cf_unsupported", "cf_header", "cf_pair", "cf_metadata", "loop"}

\* C10 (as stated): every fetch has completed before processing begins: no
\* fetch is in flight once the extrinsics have been extracted.
C10_Original ==
    pc \in ProcessingPcs => \A f \in FetchNames : fetch[f] # "pending"

\* C10 (amended): the block, events and validator-set fetches are issued
\* together and have all completed before processing begins; the fee
\* calculator's fetches are issued only after event attribution, the
\* grandparent's header before the runtime version and fee multiplier
\* (issued together), and the metadata after both have completed.
C10_FetchOrder ==
    /\ pc = "fetching" => fetch["getBlock"] # "idle" /\ fetch["events"] # "idle"
    /\ pc \in {"joined"} \cup BuiltPcs =>
        /\ fetch["getBlock"] = "ok"
        /\ fetch["events"] \in {"ok", "caught"}
        /\ fetch["validators"] \in {"idle", "ok"}
    /\ pc \in {"start", "fetching", "joined", "extracted", "sanitized"} =>
        \A f \in FeeFetches : fetch[f] = "idle"
    /\ (fetch["version"] # "idle" /\ fee.calcFee # DummyCalcFee) =>
        /\ fetch["multiplier"] # "idle"
        /\ block.number > 1 => fetch["header"] = "ok"
    /\ fetch["metadata"] # "idle" => fetch["version"] = "ok" /\ fetch["multiplier"] = "ok"

C10_Witness ==
    /\ pc = "cf_metadata"
    /\ fetch["metadata"] = "pending"
    /\ fetch["header"] = "ok"
    /\ fetch["validators"] = "ok"

\* ======================================================= author resolver
\* ConsensusEngineId.extractAuthor as called at lines 570 and 579: nothing
\* without validators; aura takes the slot modulo the set, BABE the
\* authority index, which may lie outside the set
EngineExtractAuthor(engine, data, validators) ==
    IF Len(validators) = 0 THEN NoAuthor
    ELSE IF engine = "aura" THEN validators[(data % Len(validators)) + 1]
    ELSE IF engine = "BABE" /\ data < Len(validators) THEN validators[data + 1]
    ELSE NoAuthor

IsPreRuntime(item) == item.type = "PreRuntime"

IsConsensus(item) == item.type = "Consensus"

IsTagged(item) == IsPreRuntime(item) \/ IsConsensus(item)

ExtractAuthor_FirstTagged(validators, digestLogs) ==
    LET items == SelectSeq(digestLogs, IsTagged)
    IN  IF items # <<>>
        THEN EngineExtractAuthor(items[1].engine, items[1].data, validators)
        ELSE NoAuthor

ExtractAuthor(validators, digestLogs) ==
    LET pitems == SelectSeq(digestLogs, IsPreRuntime)
        citems == SelectSeq(digestLogs, IsConsensus)
    IN  IF pitems # <<>>
        THEN EngineExtractAuthor(pitems[1].engine, pitems[1].data, validators)
        ELSE IF citems # <<>>
        THEN EngineExtractAuthor(citems[1].engine, citems[1].data, validators)
        ELSE NoAuthor

\* the block with its digest arrives, and the validator set only when the
\* runtime has session.validators.at
AuthorFetch ==
    /\ apc = "start"
    /\ \E l \in DigestLogs, v \in ValidatorLists \cup {Undefined} :
        /\ logs' = l
        /\ sessionValidators' = v
    /\ apc' = "joined"
    /\ UNCHANGED <<authorId>>
    /\ UNCHANGED <<vars, callVars, eraVars>>

AuthorResolve ==
    /\ apc = "joined"
    /\ authorId' = IF sessionValidators.defined
                   THEN ExtractAuthor(sessionValidators.list, logs)
                   ELSE NoAuthor
    /\ apc' = "done"
    /\ UNCHANGED <<logs, sessionValidators>>
    /\ UNCHANGED <<vars, callVars, eraVars>>

AuthorNext ==
    \/ AuthorFetch
    \/ AuthorResolve

SpecAuthor == Init /\ [][AuthorNext]_<<vars, otherVars>>

PreRuntimeAt == {k \in 1..Len(logs) : logs[k].type = "PreRuntime"}
ConsensusAt == {k \in 1..Len(logs) : logs[k].type = "Consensus"}
Lowest(S) == CHOOSE k \in S : \A j \in S : k <= j
AuthorEntry ==
    IF PreRuntimeAt # {} THEN Lowest(PreRuntimeAt)
    ELSE IF ConsensusAt # {} THEN Lowest(ConsensusAt)
    ELSE 0

\* C11: the author comes from the first PreRuntime digest log, from the first
\* Consensus log only when there is no PreRuntime log at all, through that
\* entry's engine and payload against the validator set; with neither tag or
\* without a validator set the author is unknown and the step still completes
C11_AuthorResolution ==
    apc = "done" =>
        authorId = IF sessionValidators.defined /\ AuthorEntry # 0
                   THEN EngineExtractAuthor(logs[AuthorEntry].engine, logs[AuthorEntry].data,
                                            sessionValidators.list)
                   ELSE NoAuthor

\* a Consensus entry precedes two PreRuntime entries; the first PreRuntime
\* entry names bob, the Consensus entry and the later PreRuntime entry alice
C11_Witness ==
    /\ apc = "done"
    /\ sessionValidators.defined
    /\ Len(sessionValidators.list) = 2
    /\ Len(logs) = 3
    /\ logs[1] = [type |-> "Consensus", engine |-> "aura", data |-> 2]
    /\ logs[2] = [type |-> "PreRuntime", engine |-> "BABE", data |-> 1]
    /\ logs[3] = [type |-> "PreRuntime", engine |-> "BABE", data |-> 0]
    /\ authorId = "bob"

\* ======================================================== call tree parser
MaxDepth == 3

\* the calls of the block's registry: call index, names and parameter types
Registry ==
    (<<0, 0>> :> [section |-> "balances", method |-> "transfer",
                  params |-> <<[name |-> "dest", type |-> "u8"], [name |-> "value", type |-> "u8"]>>])
    @@ (<<1, 0>> :> [section |-> "multisig", method |-> "asMulti",
                     params |-> <<[name |-> "threshold", type |-> "u8"], [name |-> "call", type |-> "Bytes"]>>])
    @@ (<<2, 0>> :> [section |-> "council", method |-> "propose",
                     params |-> <<[name |-> "threshold", type |-> "u8"], [name |-> "proposal", type |-> "Call"]>>])
    @@ (<<3, 0>> :> [section |-> "utility", method |-> "batch",
                     params |-> <<[name |-> "calls", type |-> "Vec<Call>"]>>])
    @@ (<<4, 0>> :> [section |-> "staking", method |-> "nominate",
                     params |-> <<[name |-> "targets", type |-> "Vec<u8>"]>>])
    @@ (<<5, 0>> :> [section |-> "system", method |-> "remark",
                     params |-> <<[name |-> "remark", type |-> "Bytes"]>>])

CallIndex(section, method) ==
    CHOOSE k \in DOMAIN Registry : Registry[k].section = section /\ Registry[k].method = method

\* the bytes a client submits for a value: call index then the arguments in
\* order, sequences and byte strings behind their length
RECURSIVE ToU8a(_), ToU8aAll(_)
ToU8a(v) ==
    IF v.kind = "prim" THEN <<v.val>>
    ELSE IF v.kind = "bytes" THEN <<Len(v.hex)>> \o v.hex
    ELSE IF v.kind = "vec" THEN <<Len(v.items)>> \o ToU8aAll(v.items)
    ELSE CallIndex(v.section, v.method) \o ToU8aAll([i \in 1..Len(v.args) |-> v.args[i].value])

ToU8aAll(vs) ==
    IF Len(vs) = 0 THEN <<>> ELSE ToU8a(Head(vs)) \o ToU8aAll(Tail(vs))

\* registry.createType('Call', hex): an unknown call index or input that ends
\* early throws; bytes after the call are ignored
DecodeFailed == [ok |-> FALSE, value |-> Prim(0), rest |-> <<>>]
Decoded(value, rest) == [ok |-> TRUE, value |-> value, rest |-> rest]
ElementType(type) == IF type = "Vec<Call>" THEN "Call" ELSE "u8"

RECURSIVE CreateTypeCall(_), DecodeValue(_, _), DecodeParams(_, _, _), DecodeItems(_, _, _, _)
DecodeValue(type, bytes) ==
    IF type = "Call" THEN CreateTypeCall(bytes)
    ELSE IF Len(bytes) = 0 THEN DecodeFailed
    ELSE IF type = "u8" THEN Decoded(Prim(Head(bytes)), Tail(bytes))
    ELSE IF type = "Bytes"
    THEN IF Len(bytes) - 1 < Head(bytes) THEN DecodeFailed
         ELSE Decoded(Bytes(SubSeq(bytes, 2, 1 + Head(bytes))),
                      SubSeq(bytes, 2 + Head(bytes), Len(bytes)))
    ELSE DecodeItems(ElementType(type), Head(bytes), Tail(bytes), <<>>)

DecodeItems(type, n, bytes, acc) ==
    IF n = 0 THEN Decoded(Vec(acc), bytes)
    ELSE LET r == DecodeValue(type, bytes)
         IN  IF r.ok THEN DecodeItems(type, n - 1, r.rest, Append(acc, r.value))
             ELSE DecodeFailed

DecodeParams(params, bytes, acc) ==
    IF Len(params) = 0 THEN Decoded(acc, bytes)
    ELSE LET r == DecodeValue(Head(params).type, bytes)
         IN  IF r.ok
             THEN DecodeParams(Tail(params), r.rest, Append(acc, Arg(Head(params).name, r.value)))
             ELSE DecodeFailed

CreateTypeCall(bytes) ==
    IF Len(bytes) < 2 THEN DecodeFailed
    ELSE IF <<bytes[1], bytes[2]>> \notin DOMAIN Registry THEN DecodeFailed
    ELSE LET meta == Registry[<<bytes[1], bytes[2]>>]
             r == DecodeParams(meta.params, SubSeq(bytes, 3, Len(bytes)), <<>>)
         IN  IF r.ok THEN Decoded(GenericCall(meta.section, meta.method, r.value), r.rest)
             ELSE DecodeFailed

RECURSIVE ParseGenericCall(_)
ParseArrayGenericCalls(argsArray) ==
    [j \in 1..Len(argsArray) |->
        IF argsArray[j].kind = "call" THEN ParseGenericCall(argsArray[j]) ELSE argsArray[j]]

ParseArgument_NoOpaque(paramName, argument) ==
    IF argument.kind = "vec" THEN Vec(ParseArrayGenericCalls(argument.items))
    ELSE IF argument.kind = "call" THEN ParseGenericCall(argument)
    ELSE argument

\* one turn of the loop over callArgs.defKeys; the try of lines 532-543 spans
\* the decoding and the parse of what was decoded
ParseArgument(paramName, argument) ==
    IF argument.kind = "vec" THEN Vec(ParseArrayGenericCalls(argument.items))
    ELSE IF argument.kind = "call" THEN ParseGenericCall(argument)
    ELSE IF paramName = "call" /\ argument.kind = "bytes"
    THEN LET call == CreateTypeCall(argument.hex)
         IN  IF call.ok THEN ParseGenericCall(call.value) ELSE argument
    ELSE argument

ParseGenericCall(call) ==
    SanitizedCall(call.section, call.method,
                  [i \in 1..Len(call.args) |->
                      Arg(call.args[i].name, ParseArgument(call.args[i].name, call.args[i].value))])

\* the calls an extrinsic may carry, nested up to MaxDepth
Transfer == GenericCall("balances", "transfer", <<Arg("dest", Prim(1)), Arg("value", Prim(2))>>)
Nominate == GenericCall("staking", "nominate", <<Arg("targets", Vec(<<Prim(1), Prim(2)>>))>>)
Remark == GenericCall("system", "remark", <<Arg("remark", Bytes(ToU8a(Transfer)))>>)
AsMulti(hex) == GenericCall("multisig", "asMulti", <<Arg("threshold", Prim(2)), Arg("call", Bytes(hex))>>)
Propose(c) == GenericCall("council", "propose", <<Arg("threshold", Prim(1)), Arg("proposal", c)>>)
Batch(cs) == GenericCall("utility", "batch", <<Arg("calls", Vec(cs))>>)
Undecodable == {<<>>, <<9, 9>>, <<0, 0, 1>>}

RECURSIVE Calls(_)
Calls(d) ==
    IF d = 1 THEN {Transfer, Nominate, Remark} \cup {AsMulti(g) : g \in Undecodable}
    ELSE LET inner == Calls(d - 1)
         IN  inner \cup {Propose(c) : c \in inner} \cup {AsMulti(ToU8a(c)) : c \in inner}
                   \cup {Batch(<<c>>) : c \in inner} \cup {Batch(<<Transfer, c>>) : c \in inner}

CallFetch ==
    /\ cpc = "start"
    /\ \E c \in Calls(MaxDepth) : genericCall' = c
    /\ cpc' = "fetched"
    /\ UNCHANGED <<sanitized>>
    /\ UNCHANGED <<vars, authorVars, eraVars>>

CallParse ==
    /\ cpc = "fetched"
    /\ sanitized' = ParseGenericCall(genericCall)
    /\ cpc' = "done"
    /\ UNCHANGED <<genericCall>>
    /\ UNCHANGED <<vars, authorVars, eraVars>>

CallNext ==
    \/ CallFetch
    \/ CallParse

SpecCall == Init /\ [][CallNext]_<<vars, otherVars>>

Max(S) == IF S = {} THEN 0 ELSE CHOOSE k \in S : \A j \in S : j <= k

\* what an argument holds as a call, if anything: <<>> or the calls in it
NestedCalls(arg) ==
    IF arg.value.kind = "call" THEN {arg.value}
    ELSE IF arg.value.kind = "vec"
    THEN {arg.value.items[j] : j \in {j \in 1..Len(arg.value.items) : arg.value.items[j].kind = "call"}}
    ELSE IF arg.name = "call" /\ arg.value.kind = "bytes" /\ CreateTypeCall(arg.value.hex).ok
    THEN {CreateTypeCall(arg.value.hex).value}
    ELSE {}

NestedSanitized(arg) ==
    IF arg.value.kind = "sanitized" THEN {arg.value}
    ELSE IF arg.value.kind = "vec"
    THEN {arg.value.items[j] : j \in {j \in 1..Len(arg.value.items) : arg.value.items[j].kind = "sanitized"}}
    ELSE {}

RECURSIVE CallDepth(_), TreeDepth(_), Mirrors(_, _)
CallDepth(c) ==
    1 + Max({CallDepth(n) : n \in UNION {NestedCalls(c.args[i]) : i \in 1..Len(c.args)}})

TreeDepth(t) ==
    1 + Max({TreeDepth(n) : n \in UNION {NestedSanitized(t.args[i]) : i \in 1..Len(t.args)}})

\* the tree t carries the call c: same labels, same argument names; a nested
\* call is carried by a tree, a sequence element by element, an opaque call
\* by the tree of what it decodes to, and everything else is the same value
ArgMirrors(a, o) ==
    /\ o.name = a.name
    /\ IF a.value.kind = "call" THEN Mirrors(a.value, o.value)
       ELSE IF a.value.kind = "vec"
       THEN /\ o.value.kind = "vec"
            /\ Len(o.value.items) = Len(a.value.items)
            /\ \A j \in 1..Len(a.value.items) :
                IF a.value.items[j].kind = "call"
                THEN Mirrors(a.value.items[j], o.value.items[j])
                ELSE o.value.items[j] = a.value.items[j]
       ELSE IF a.name = "call" /\ a.value.kind = "bytes" /\ CreateTypeCall(a.value.hex).ok
       THEN Mirrors(CreateTypeCall(a.value.hex).value, o.value)
       ELSE o.value = a.value

Mirrors(c, t) ==
    /\ t.kind = "sanitized"
    /\ t.pallet = c.section
    /\ t.method = c.method
    /\ Len(t.args) = Len(c.args)
    /\ \A i \in 1..Len(c.args) : ArgMirrors(c.args[i], t.args[i])

\* C12: parseGenericCall yields a tree as deep as the nesting of the call, with
\* each call's pallet and method at its level, whether the inner call is a
\* direct argument, an element of a sequence or the opaque bytes of an
\* argument named call; other sequence elements and arguments are unchanged,
\* and opaque bytes that do not decode stay as they are
C12_CallTree ==
    cpc = "done" =>
        /\ Mirrors(genericCall, sanitized)
        /\ TreeDepth(sanitized) = CallDepth(genericCall)

\* a council motion wrapping a multisig call wrapping a balance transfer
C12_Witness ==
    /\ cpc = "done"
    /\ genericCall = Propose(AsMulti(ToU8a(Transfer)))
    /\ CallDepth(genericCall) = 3
    /\ sanitized =
        SanitizedCall("council", "propose",
            <<Arg("threshold", Prim(1)),
              Arg("proposal",
                  SanitizedCall("multisig", "asMulti",
                      <<Arg("threshold", Prim(2)),
                        Arg("call",
                            SanitizedCall("balances", "transfer",
                                <<Arg("dest", Prim(1)), Arg("value", Prim(2))>>))>>))>>)

\* ===================================================== eras reward points
\* staking.erasRewardPoints at the finalized head: each era has its own total
\* and its own validators
ErasRewardPointsAt(era) ==
    [total |-> 20 * (era + 1),
     individual |-> IF era % 2 = 0 THEN <<"alice", "bob">> ELSE <<"bob", "carol">>]

Eras == 0..MaxEra
Depths == 1..MaxEra
HistoryDepths == 0..MaxEra

\* getErasRewardPoints up to the call of the service: getEraAndHash with the
\* era of the query (NoEra when it has none) and the depth, 1 when it has none
GetEraAndHash ==
    /\ epc = "start"
    /\ \E era \in Eras \cup {NoEra}, depth \in Depths,
          activeEra \in Eras \cup {NoEra}, currentEra \in Eras \cup {NoEra} :
        \* the current era is the active one or the one planned after it
        /\ (activeEra # NoEra /\ currentEra # NoEra) => currentEra \in {activeEra, activeEra + 1}
        /\ IF activeEra = NoEra \/ currentEra = NoEra
           THEN /\ epc' = "InternalServerError"
                /\ UNCHANGED eraRequest
           ELSE IF era # NoEra /\ era > activeEra - 1
           THEN /\ epc' = "BadRequest"
                /\ UNCHANGED eraRequest
           ELSE /\ epc' = "historyDepth"
                /\ eraRequest' = [depth |-> depth,
                                  era |-> IF era = NoEra THEN activeEra - 1 ELSE era,
                                  currentEra |-> currentEra,
                                  historyDepth |-> 0]
    /\ UNCHANGED <<loopEra, erasRewardPoints, erasRewardPoint, eraResponse>>
    /\ UNCHANGED <<vars, authorVars, callVars>>

StartEra(era, depth) == IF era - (depth - 1) < 0 THEN 0 ELSE era - (depth - 1)

\* historyDepth arrives, the two range checks, and the loop is set up
CompleteHistoryDepth ==
    /\ epc = "historyDepth"
    /\ \E historyDepth \in HistoryDepths :
        /\ eraRequest' = [eraRequest EXCEPT !.historyDepth = historyDepth]
        /\ IF eraRequest.depth > historyDepth
           THEN /\ epc' = "BadRequest"
                /\ UNCHANGED loopEra
           ELSE IF eraRequest.era - (eraRequest.depth - 1) < eraRequest.currentEra - historyDepth
           THEN /\ epc' = "BadRequest"
                /\ UNCHANGED loopEra
           ELSE /\ epc' = "loop"
                /\ loopEra' = StartEra(eraRequest.era, eraRequest.depth)
    /\ UNCHANGED <<erasRewardPoints, erasRewardPoint, eraResponse>>
    /\ UNCHANGED <<vars, authorVars, callVars>>

\* one turn of the loop: the index and the query are made from era, the
\* validators are pushed onto the one erasRewardPoint array
EraIteration ==
    /\ epc = "loop"
    /\ loopEra <= eraRequest.era
    /\ LET eraIndex == eraRequest.era
           eraRewardPoints == ErasRewardPointsAt(eraRequest.era)
       IN  /\ erasRewardPoint' = erasRewardPoint \o
                  [k \in 1..Len(eraRewardPoints.individual) |->
                      [validator_id |-> eraRewardPoints.individual[k]]]
           /\ erasRewardPoints' = Append(erasRewardPoints,
                  [era |-> eraIndex, totalEraRewardPoints |-> eraRewardPoints.total])
    /\ loopEra' = loopEra + 1
    /\ UNCHANGED <<epc, eraRequest, eraResponse>>
    /\ UNCHANGED <<vars, authorVars, callVars>>

\* every entry of the returned list refers to the same erasRewardPoint array
EraReturn ==
    /\ epc = "loop"
    /\ loopEra > eraRequest.era
    /\ eraResponse' = [k \in 1..Len(erasRewardPoints) |->
                          [era |-> erasRewardPoints[k].era,
                           totalEraRewardPoints |-> erasRewardPoints[k].totalEraRewardPoints,
                           erasRewardPoint |-> erasRewardPoint]]
    /\ epc' = "done"
    /\ UNCHANGED <<eraRequest, loopEra, erasRewardPoints, erasRewardPoint>>
    /\ UNCHANGED <<vars, authorVars, callVars>>

ErasNext ==
    \/ GetEraAndHash
    \/ CompleteHistoryDepth
    \/ EraIteration
    \/ EraReturn

SpecEras == Init /\ [][ErasNext]_<<vars, otherVars>>

ValidatorIds(era) ==
    [k \in 1..Len(ErasRewardPointsAt(era).individual) |->
        [validator_id |-> ErasRewardPointsAt(era).individual[k]]]

\* C13: for accepted arguments the response has exactly one entry for each of
\* the eras from max(0, era - (depth - 1)) to era, in that order, and the
\* entry of an era carries that era's index, that era's total and only that
\* era's validators
C13_Claim ==
    epc = "done" =>
        LET startEra == StartEra(eraRequest.era, eraRequest.depth)
        IN  /\ Len(eraResponse) = Max({0, eraRequest.era - startEra + 1})
            /\ \A k \in 1..Len(eraResponse) :
                /\ eraResponse[k].era = startEra + k - 1
                /\ eraResponse[k].totalEraRewardPoints = ErasRewardPointsAt(startEra + k - 1).total
                /\ eraResponse[k].erasRewardPoint = ValidatorIds(startEra + k - 1)

\* what the loop does keep: one entry per era of the range
C13_EntryCount ==
    epc = "done" =>
        Len(eraResponse) =
            Max({0, eraRequest.era - StartEra(eraRequest.era, eraRequest.depth) + 1})
====
